---- MODULE Spec2Model ----
(***************************************************************************)
(* compartment-mapper: the sparse range algebra (Range, SparseRange) and   *)
(* the capability-graph traversal (Mapper::scan).                          *)
(*                                                                         *)
(* Addresses are ptraddr_t values.  The 64-bit address space is scaled to  *)
(* AddrSpace addresses (arithmetic is modulo AddrSpace, as ptraddr_t       *)
(* arithmetic is modulo 2^64) and the capability size to W address units.  *)
(***************************************************************************)
EXTENDS Integers, Sequences, FiniteSets, TLC

\* Number of capability-sized words in the address space.
NumWords == 4

\* Largest number of tagged capability words in the scanned memory.
MaxTaggedWords == 2

\* sizeof(void* __capability), in address units (16 bytes on Morello).
W == 2

\* The value of max_scan_depth_ that stands for "unbounded".
UINT64_MAX == 1000000

\* Largest length of the ranges combined into and removed from a SparseRange
\* (the full range apart).
MaxRangeLen == 3

\* Largest depth limit passed to set_max_scan_depth().
MaxDepthArg == 1

\* Number of top-level scan(cap, name) calls on one Mapper.
MaxScans == 2

\* Mappers constructed one after the other in the process.
MaxMappers == 2

\* The largest number of entries the process has in its memory map.
MaxEntries == 2

\* The largest number of arguments on the command line of the test harness.
MaxArgs == 2

AddrSpace == NumWords * W
MaxAddr == AddrSpace - 1
Addr == 0 .. MaxAddr

\* ptraddr_t / size_t arithmetic: results are reduced modulo the width.
AddrAdd(a, b) == (a + b) % AddrSpace
AddrSub(a, b) == (a + AddrSpace - (b % AddrSpace)) % AddrSpace

Min(a, b) == IF a < b THEN a ELSE b
Max(a, b) == IF a > b THEN a ELSE b

(***************************************************************************)
(* Range: a closed interval [base, last]; empty iff last < base.           *)
(***************************************************************************)
Range == [base : Addr, last : Addr]

from_base_last(b, l) == [base |-> b, last |-> l]
from_base_limit(b, lim) == from_base_last(b, AddrSub(lim, 1))
from_base_length(b, n) == from_base_last(b, AddrSub(AddrAdd(b, n), 1))
full_64bit == from_base_last(0, MaxAddr)
\* Range(): the canonical empty value.
EmptyRange == from_base_last(MaxAddr, 0)

is_empty(r) == r.last < r.base

Range_overlaps(a, b) == a.base <= b.last /\ a.last >= b.base
Range_includes(a, b) == a.base <= b.base /\ a.last >= b.last
Range_includes_addr(a, i) == a.base <= i /\ a.last >= i
Range_follows(a, b) == a.base > 0 /\ a.base = AddrAdd(b.last, 1)
Range_preceeds(a, b) == Range_follows(b, a)
\* operator<: ordering by upper bound.
Range_lt(a, b) == a.last < b.last

\* cheri_align_down / cheri_align_up on ptraddr_t.
align_down(x, m) == x - (x % m)
align_up(x, m) == AddrAdd(align_down(AddrAdd(x, m - 1), m), 0)

\* A shrink that aligns last instead of last + 1.
shrink_to_alignment_last(r, m) ==
  IF is_empty(r) THEN r
  ELSE from_base_last(align_up(r.base, m), AddrSub(align_down(r.last, m), 1))

shrink_to_alignment(r, m) ==
  IF is_empty(r) THEN r
  ELSE from_base_last(align_up(r.base, m),
                      AddrSub(align_down(AddrAdd(r.last, 1), m), 1))

\* unsigned int holds UIntSpace values where size_t holds AddrSpace, as 2^32
\* is to 2^64; a size_t converts to it modulo UIntSpace.
UIntSpace == 4
to_unsigned_int(x) == x % UIntSpace

\* The values of size_t.
SizeValues == 0 .. MaxAddr

RECURSIVE popcount(_)
popcount(x) == IF x = 0 THEN 0 ELSE (x % 2) + popcount(x \div 2)

\* assert(__builtin_popcount(multiple) == 1) holds; __builtin_popcount takes
\* an unsigned int.
shrink_assertion_holds(multiple) == popcount(to_unsigned_int(multiple)) = 1

\* A try_combine variant that merges overlapping ranges only.
Range_try_combine_overlap_only(self, other) ==
  IF Range_overlaps(self, other)
  THEN [ok |-> TRUE,
        r |-> from_base_last(Min(self.base, other.base), Max(self.last, other.last))]
  ELSE [ok |-> FALSE, r |-> self]

\* A try_combine that takes the first address for the successor of the last.
Range_try_combine_wrapping(self, other) ==
  IF \/ Range_overlaps(self, other)
     \/ other.base = AddrAdd(self.last, 1)
     \/ self.base = AddrAdd(other.last, 1)
  THEN [ok |-> TRUE,
        r |-> from_base_last(Min(self.base, other.base), Max(self.last, other.last))]
  ELSE [ok |-> FALSE, r |-> self]

\* A try_combine that takes the new base but keeps its own last address.
Range_try_combine_keeps_last(self, other) ==
  IF Range_overlaps(self, other) \/ Range_preceeds(self, other) \/ Range_follows(self, other)
  THEN [ok |-> TRUE, r |-> from_base_last(Min(self.base, other.base), self.last)]
  ELSE [ok |-> FALSE, r |-> self]

\* Range::try_combine: the returned flag and the new value of *this.
Range_try_combine(self, other) ==
  IF Range_overlaps(self, other) \/ Range_preceeds(self, other) \/ Range_follows(self, other)
  THEN [ok |-> TRUE,
        r |-> from_base_last(Min(self.base, other.base), Max(self.last, other.last))]
  ELSE [ok |-> FALSE, r |-> self]

(***************************************************************************)
(* std::set<Range>: a sequence strictly ordered by operator<.  Iterators   *)
(* are positions 1 .. Len(s) + 1, the last one being end().                *)
(***************************************************************************)
set_end(s) == Len(s) + 1

lower_bound(s, key) ==
  LET hits == {i \in 1 .. Len(s) : ~Range_lt(s[i], key)}
  IN IF hits = {} THEN set_end(s)
     ELSE CHOOSE i \in hits : \A j \in hits : i <= j

\* erase(first, last): removes positions first .. last - 1.
set_erase(s, first, last) ==
  SubSeq(s, 1, first - 1) \o SubSeq(s, last, Len(s))

\* insert(r): no effect when an equivalent element (same last) is present.
set_insert(s, r) ==
  IF \E i \in 1 .. Len(s) : ~Range_lt(s[i], r) /\ ~Range_lt(r, s[i])
  THEN s
  ELSE LET pos == lower_bound(s, r)
       IN SubSeq(s, 1, pos - 1) \o <<r>> \o SubSeq(s, pos, Len(s))

(***************************************************************************)
(* SparseRange                                                             *)
(***************************************************************************)
\* An overlaps() that probes the lower bound only.
SparseRange_overlaps_no_pred(s, other) ==
  IF is_empty(other) THEN FALSE
  ELSE LET range == lower_bound(s, other)
       IN range # set_end(s) /\ Range_overlaps(s[range], other)

SparseRange_overlaps(s, other) ==
  IF is_empty(other) THEN FALSE
  ELSE LET range == lower_bound(s, other)
       IN \/ (range # set_end(s) /\ Range_overlaps(s[range], other))
          \/ (range # 1 /\ Range_overlaps(s[range - 1], other))

\* An includes() that probes the element before the lower bound.
SparseRange_includes_pred(s, other) ==
  IF is_empty(other) THEN FALSE
  ELSE LET range == lower_bound(s, other)
       IN range # 1 /\ Range_includes(s[range - 1], other)

SparseRange_includes(s, other) ==
  IF is_empty(other) THEN FALSE
  ELSE LET range == lower_bound(s, other)
       IN range # set_end(s) /\ Range_includes(s[range], other)

\* includes(ptraddr_t)
SparseRange_includes_addr(s, i) == SparseRange_includes(s, from_base_last(i, i))

\* The first loop of combine(): walk repl_start towards begin().
RECURSIVE combine_walk_left(_, _, _)
combine_walk_left(s, repl_start, other) ==
  IF repl_start = 1 THEN [it |-> repl_start, other |-> other]
  ELSE LET tc == Range_try_combine(other, s[repl_start - 1])
       IN IF tc.ok THEN combine_walk_left(s, repl_start - 1, tc.r)
          ELSE [it |-> repl_start, other |-> other]

\* The second loop of combine(): walk repl_end towards end().
RECURSIVE combine_walk_right(_, _, _)
combine_walk_right(s, repl_end, other) ==
  IF repl_end = set_end(s) THEN [it |-> repl_end, other |-> other]
  ELSE LET tc == Range_try_combine(other, s[repl_end])
       IN IF tc.ok THEN combine_walk_right(s, repl_end + 1, tc.r)
          ELSE [it |-> repl_end, other |-> other]

\* A combine() that leaves out the scan towards begin().
SparseRange_combine_no_left(s, other) ==
  IF is_empty(other) THEN s
  ELSE IF s = <<>> THEN set_insert(s, other)
  ELSE LET lb == lower_bound(s, other)
           called == lb # set_end(s) /\ lb # 1
           tc == IF called THEN Range_try_combine(other, s[lb])
                 ELSE [ok |-> FALSE, r |-> other]
           repl_start == IF lb = set_end(s) \/ (lb # 1 /\ ~tc.ok) THEN lb - 1 ELSE lb
           right == combine_walk_right(s, repl_start, tc.r)
       IN set_insert(set_erase(s, repl_start, right.it), right.other)

SparseRange_combine(s, other) ==
  IF is_empty(other) THEN s
  ELSE IF s = <<>> THEN set_insert(s, other)
  ELSE LET lb == lower_bound(s, other)
           \* try_combine is evaluated only when lb is neither end() nor begin().
           called == lb # set_end(s) /\ lb # 1
           tc == IF called THEN Range_try_combine(other, s[lb])
                 ELSE [ok |-> FALSE, r |-> other]
           repl_start == IF lb = set_end(s) \/ (lb # 1 /\ ~tc.ok) THEN lb - 1 ELSE lb
           left == combine_walk_left(s, repl_start, tc.r)
           right == combine_walk_right(s, repl_start, left.other)
       IN set_insert(set_erase(s, left.it, right.it), right.other)

\* The first loop of remove().
RECURSIVE remove_walk_left(_, _, _)
remove_walk_left(s, repl_start, other) ==
  IF repl_start = 1 THEN repl_start
  ELSE IF Range_overlaps(s[repl_start - 1], other)
       THEN remove_walk_left(s, repl_start - 1, other)
       ELSE repl_start

\* The second loop of remove(): returns repl_end.
RECURSIVE remove_walk_right(_, _, _)
remove_walk_right(s, repl_end, other) ==
  IF repl_end = set_end(s) THEN repl_end
  ELSE IF ~Range_overlaps(s[repl_end], other) THEN repl_end
       ELSE remove_walk_right(s, repl_end + 1, other)

\* A remove() that drops the part above the removed range.
SparseRange_remove_no_high(s, other) ==
  IF is_empty(other) THEN s
  ELSE IF s = <<>> THEN s
  ELSE LET lb == lower_bound(s, other)
           start0 == IF lb = set_end(s) \/ (lb # 1 /\ ~Range_overlaps(s[lb], other))
                     THEN lb - 1 ELSE lb
       IN IF start0 = set_end(s) \/ ~Range_overlaps(s[start0], other) THEN s
          ELSE LET repl_start == remove_walk_left(s, start0, other)
                   repl_end == remove_walk_right(s, start0 + 1, other)
                   l == IF s[repl_start].base < other.base
                        THEN from_base_limit(s[repl_start].base, other.base)
                        ELSE EmptyRange
                   erased == set_erase(s, repl_start, repl_end)
               IN IF ~is_empty(l) THEN set_insert(erased, l) ELSE erased

\* A remove() whose lower residual ends at other.base instead of before it.
SparseRange_remove_low_off_by_one(s, other) ==
  IF is_empty(other) THEN s
  ELSE IF s = <<>> THEN s
  ELSE LET lb == lower_bound(s, other)
           start0 == IF lb = set_end(s) \/ (lb # 1 /\ ~Range_overlaps(s[lb], other))
                     THEN lb - 1 ELSE lb
       IN IF start0 = set_end(s) \/ ~Range_overlaps(s[start0], other) THEN s
          ELSE LET repl_start == remove_walk_left(s, start0, other)
                   repl_end == remove_walk_right(s, start0 + 1, other)
                   repl_last == repl_end - 1
                   l == IF s[repl_start].base < other.base
                        THEN from_base_last(s[repl_start].base, other.base)
                        ELSE EmptyRange
                   h == IF other.last < s[repl_last].last
                        THEN from_base_last(AddrAdd(other.last, 1), s[repl_last].last)
                        ELSE EmptyRange
                   erased == set_erase(s, repl_start, repl_end)
                   withL == IF ~is_empty(l) THEN set_insert(erased, l) ELSE erased
               IN IF ~is_empty(h) THEN set_insert(withL, h) ELSE withL

SparseRange_remove(s, other) ==
  IF is_empty(other) THEN s
  ELSE IF s = <<>> THEN s
  ELSE LET lb == lower_bound(s, other)
           start0 == IF lb = set_end(s) \/ (lb # 1 /\ ~Range_overlaps(s[lb], other))
                     THEN lb - 1 ELSE lb
       IN IF start0 = set_end(s) \/ ~Range_overlaps(s[start0], other) THEN s
          ELSE LET repl_start == remove_walk_left(s, start0, other)
                   repl_end == remove_walk_right(s, start0 + 1, other)
                   repl_last == repl_end - 1
                   l == IF s[repl_start].base < other.base
                        THEN from_base_limit(s[repl_start].base, other.base)
                        ELSE EmptyRange
                   h == IF other.last < s[repl_last].last
                        THEN from_base_last(AddrAdd(other.last, 1), s[repl_last].last)
                        ELSE EmptyRange
                   erased == set_erase(s, repl_start, repl_end)
                   withL == IF ~is_empty(l) THEN set_insert(erased, l) ELSE erased
               IN IF ~is_empty(h) THEN set_insert(withL, h) ELSE withL

\* The addresses covered by the parts of a SparseRange.
Covered(s) == {i \in Addr : \E k \in 1 .. Len(s) : Range_includes_addr(s[k], i)}
\* The addresses of a Range.
AddrsOf(r) == {i \in Addr : Range_includes_addr(r, i)}

(***************************************************************************)
(* SparseRange: the constructor from a Range and the overloads that take   *)
(* a whole set of parts.                                                   *)
(***************************************************************************)
\* SparseRange(Range)
SparseRange_of(r) == SparseRange_combine(<<>>, r)

\* includes(SparseRange const&): every part of other is included.
SparseRange_includes_all(s, other) ==
  \A i \in DOMAIN other : SparseRange_includes(s, other[i])

\* remove(SparseRange) / remove(std::set<Range> const&): removes every part.
RECURSIVE SparseRange_remove_all(_, _)
SparseRange_remove_all(s, parts) ==
  IF parts = <<>> THEN s
  ELSE SparseRange_remove_all(SparseRange_remove(s, Head(parts)), Tail(parts))

(***************************************************************************)
(* Capabilities, seen through the CHERI intrinsics.  length is the real    *)
(* length of the bounds, 0 .. AddrSpace.                                   *)
(***************************************************************************)
PERM_LOAD == "Load"
PERM_LOAD_CAP == "LoadCap"

MkCap(b, n, p, s) == [tag |-> TRUE, base |-> b, length |-> n, perms |-> p, sealed |-> s]
\* nullptr, and any other untagged word.
Untagged == [tag |-> FALSE, base |-> 0, length |-> 0, perms |-> {}, sealed |-> FALSE]

cheri_tag_get(c) == c.tag
cheri_is_sealed(c) == c.sealed
cheri_perms_get(c) == c.perms
cheri_base_get(c) == c.base
\* A length of the whole address space saturates to the largest size_t.
cheri_length_get(c) == IF c.length = AddrSpace THEN MaxAddr ELSE c.length

from_cap(c) ==
  IF cheri_base_get(c) = 0 /\ cheri_length_get(c) = MaxAddr
  THEN from_base_last(0, MaxAddr)
  ELSE from_base_length(cheri_base_get(c), cheri_length_get(c))

\* A LoadCapMap that is content with either of the two permissions.
LoadCapMap_accepts_either_perm(c) ==
  /\ cheri_tag_get(c)
  /\ ~cheri_is_sealed(c)
  /\ {PERM_LOAD, PERM_LOAD_CAP} \cap cheri_perms_get(c) # {}

\* The permission test of LoadCapMap::try_combine.
LoadCapMap_accepts(c) ==
  /\ cheri_tag_get(c)
  /\ ~cheri_is_sealed(c)
  /\ {PERM_LOAD, PERM_LOAD_CAP} \subseteq cheri_perms_get(c)

\* A LoadCapMap that keeps the bounds of the last accepted capability only.
LoadCapMap_try_combine_latest(ranges, c) ==
  IF LoadCapMap_accepts(c) THEN SparseRange_of(from_cap(c)) ELSE ranges

\* LoadCapMap::try_combine: the new ranges_ (the return value is LoadCapMap_accepts).
LoadCapMap_try_combine(ranges, c) ==
  IF LoadCapMap_accepts(c) THEN SparseRange_combine(ranges, from_cap(c)) ELSE ranges

LoadMap_accepts(c) ==
  /\ cheri_tag_get(c)
  /\ ~cheri_is_sealed(c)
  /\ PERM_LOAD \in cheri_perms_get(c)

\* A LoadMap that contracts the bounds to capability alignment.
LoadMap_try_combine_aligned(ranges, c) ==
  IF LoadMap_accepts(c)
  THEN SparseRange_combine(ranges, shrink_to_alignment(from_cap(c), W))
  ELSE ranges

\* LoadMap::try_combine: the new ranges_.
LoadMap_try_combine(ranges, c) ==
  IF LoadMap_accepts(c) THEN SparseRange_combine(ranges, from_cap(c)) ELSE ranges

\* PermissionMap::try_combine with perms_ = perms: the acceptance test.  It
\* does not look at the seal.
PermissionMap_accepts(perms, c) ==
  cheri_tag_get(c) /\ perms \subseteq cheri_perms_get(c)

\* The PoisonMap installed in maps_: its perms_ and its poison_, the first
\* capability word.
PoisonMap_perms_ == {PERM_LOAD}
PoisonMap_poison_ == SparseRange_of(from_base_length(0, W))

PoisonMap_accepts(c) == PermissionMap_accepts(PoisonMap_perms_, c)

\* PoisonMap::try_combine calls callback_(cap).
PoisonMap_calls_back(c) ==
  PoisonMap_accepts(c) /\ SparseRange_overlaps(PoisonMap_poison_, from_cap(c))

\* PoisonMap::try_combine: the new ranges_.
PoisonMap_try_combine(ranges, c) ==
  IF PoisonMap_accepts(c) THEN SparseRange_combine(ranges, from_cap(c)) ELSE ranges

\* The load instruction checks the bounds of the capability it loads through.
LoadInBounds(c, a) ==
  /\ cheri_base_get(c) <= a
  /\ a + W <= cheri_base_get(c) + c.length

(***************************************************************************)
(* The process image: capability words, the capabilities that may be       *)
(* stored in them or handed to scan() as roots, and the Mapper set-ups.    *)
(***************************************************************************)
WordAddrs == {a \in Addr : a % W = 0}

LoadCapPerms == {PERM_LOAD, PERM_LOAD_CAP}

\* One capability per capability-sized object.
WordCaps == {MkCap(a, W, LoadCapPerms, FALSE) : a \in WordAddrs}
\* The whole address space (DDC of a hybrid process).
FullCap == MkCap(0, AddrSpace, LoadCapPerms, FALSE)
\* Byte-granular bounds: the third word and one byte on either side of it.
UnalignedCap == MkCap(2 * W - 1, W + 2, LoadCapPerms, FALSE)
LoadOnlyCap == MkCap(0, W, {PERM_LOAD}, FALSE)
SealedCap == MkCap(0, W, LoadCapPerms, TRUE)

TaggedCaps == WordCaps \cup {FullCap, UnalignedCap, LoadOnlyCap, SealedCap}
Caps == TaggedCaps \cup {Untagged}

\* The include arguments of Mapper(SparseRange include).
IncludeChoices ==
  { <<>>,
    <<full_64bit>>,
    <<from_base_length(0, 2 * W)>>,
    <<from_base_length(0, W), from_base_last(2 * W, MaxAddr)>> }

\* Range::from_object(this): where the Mapper object lives.
SelfChoices == {from_base_length(0, W), from_base_last(AddrSpace - W, MaxAddr)}

(***************************************************************************)
(* A SparseRange driven by combine(Range) and remove(Range) calls, next    *)
(* to the bitmap reference of the fuzz test.                               *)
(***************************************************************************)
\* The Range arguments of the calls: the ranges of up to MaxRangeLen
\* addresses, the full range and two empty ranges.
RangeArgs ==
  {r \in Range : ~is_empty(r) /\ r.last - r.base < MaxRangeLen}
    \cup {full_64bit, EmptyRange, from_base_last(1, 0)}

VARIABLES
  sr,          \* the SparseRange under test (its parts(), in set order)
  reference,   \* the reference set of addresses maintained in parallel
  sr_before,   \* parts() before the last call
  last_op,     \* "none", "combine" or "remove"
  last_range,  \* the argument of the last call
  pair_kind,   \* "combine_remove" after combine(r); remove(r), else "none"
  pair_start   \* parts() before the first call of that pair

sr_vars == <<sr, reference, sr_before, last_op, last_range, pair_kind, pair_start>>

VARIABLES
  include_,              \* Mapper::include_
  self_range,            \* Range::from_object(this)
  exclude_self_,         \* Mapper::exclude_self_
  load_cap_map_,         \* Mapper::load_cap_map_ (its ranges_)
  load_map_,             \* the ranges_ of the LoadMap installed first in maps_
  poison_map_,           \* the ranges_ of the PoisonMap installed second in maps_
  pois_acc,              \* how often the poison callback ran (2 = more than once)
  calls,                 \* the calls on Maps made by the last step, in program order
  max_scan_depth_,       \* Mapper::max_scan_depth_
  max_seen_scan_depth_,  \* Mapper::max_seen_scan_depth_
  roots_,                \* Mapper::roots_ (the capabilities)
  stack,                 \* the active calls of scan(cap, depth), innermost last
  pc,                    \* "idle", "scanning" or "fault" (the process was killed)
  mem,                   \* the capability words read so far
  revealed,              \* the word addresses whose content has been read
  loads,                 \* per address, how often it was loaded (2 = more than once)
  load_log,              \* the loads performed: address, capability loaded through, depth
  visits,                \* the calls of scan(cap, depth) made so far
  scan_calls,            \* number of calls of scan(cap, name)
  prev                   \* what an earlier Mapper of the process ended with, or NoPrev

mapper_vars == <<include_, self_range, exclude_self_, load_cap_map_, load_map_,
                 poison_map_, pois_acc, calls, max_scan_depth_, max_seen_scan_depth_, roots_, stack, pc, mem,
                 revealed, loads, load_log, visits, scan_calls, prev>>

VARIABLES
  r_this,      \* a Range object, *this of the call
  r_other,     \* the Range passed to the call
  r_before,    \* *this and the argument as they were before the call
  r_ret,       \* what the call returned
  r_op,        \* "none", or the member function that was called
  r_third,     \* a third Range object
  r_multiple,  \* the size_t passed to shrink_to_alignment
  r_cap,       \* the capability passed to from_cap
  r_first      \* the three Range objects as they were constructed

range_vars == <<r_this, r_other, r_before, r_ret, r_op, r_third, r_multiple, r_cap, r_first>>

VARIABLES
  kve,         \* the entries kinfo_getvmmap() reports for the process
  vm,          \* the array kinfo_getvmmap() returned: "none", "held" or "freed"
  vmmap_map,   \* the SparseRange vmmap() returned
  vmmap_pc     \* "idle" or "returned"

vmmap_vars == <<kve, vm, vmmap_map, vmmap_pc>>

VARIABLES
  argv,            \* the arguments of the test harness, argv[1] first
  verbosity_,      \* Options::verbosity_
  filter_needles_, \* Options::filter_needles_
  argi,            \* the i of the argument loop of main
  test_i,          \* how many tests of Test::list() main has gone through
  pass,            \* main's pass
  fail,            \* main's fail
  harness_pc,      \* "off", "main" or "exited"
  exit_status      \* the exit status of the process once harness_pc = "exited"

harness_vars == <<argv, verbosity_, filter_needles_, argi, test_i, pass, fail, harness_pc,
                  exit_status>>

vars == <<sr_vars, mapper_vars, range_vars, vmmap_vars, harness_vars>>

\* No Range member function has been called.
RangeInit(this, other) ==
  /\ r_this = this
  /\ r_other = other
  /\ r_before = [this |-> this, other |-> other]
  /\ r_ret = FALSE
  /\ r_op = "none"
  /\ r_third = EmptyRange
  /\ r_multiple = 1
  /\ r_cap = Untagged
  /\ r_first = [this |-> this, other |-> other, third |-> EmptyRange]

\* vmmap() has not been called.
VmmapIdle(entries) ==
  /\ kve = entries
  /\ vm = "none"
  /\ vmmap_map = <<>>
  /\ vmmap_pc = "idle"

\* The process is not the test harness.
HarnessOff ==
  /\ argv = <<>>
  /\ verbosity_ = 0
  /\ filter_needles_ = <<>>
  /\ argi = 1
  /\ test_i = 0
  /\ pass = 0
  /\ fail = 0
  /\ harness_pc = "off"
  /\ exit_status = 0

SparseRangeInit ==
  /\ sr = <<>>
  /\ reference = {}
  /\ sr_before = <<>>
  /\ last_op = "none"
  /\ last_range = EmptyRange
  /\ pair_kind = "none"
  /\ pair_start = <<>>

\* No Mapper has been destroyed yet.
NoPrev == [roots |-> <<>>, depth |-> 0, load_cap_map |-> <<>>, load_map |-> <<>>,
           poison_map |-> <<>>, mappers |-> 0]

\* Mapper(SparseRange include), living at self.
MapperInit(include, self) ==
  /\ include_ = include
  /\ self_range = self
  /\ exclude_self_ = <<>>
  /\ load_cap_map_ = <<>>
  /\ load_map_ = <<>>
  /\ poison_map_ = <<>>
  /\ pois_acc = 0
  /\ calls = <<>>
  /\ max_scan_depth_ = UINT64_MAX
  /\ max_seen_scan_depth_ = 0
  /\ roots_ = <<>>
  /\ stack = <<>>
  /\ pc = "idle"
  /\ mem = [a \in WordAddrs |-> Untagged]
  /\ revealed = {}
  /\ loads = [a \in Addr |-> 0]
  /\ load_log = {}
  /\ visits = {}
  /\ scan_calls = 0
  /\ prev = NoPrev

Init ==
  /\ SparseRangeInit
  /\ MapperInit(<<>>, from_base_length(0, W))
  /\ RangeInit(EmptyRange, EmptyRange)
  /\ VmmapIdle(<<>>)
  /\ HarnessOff

DoCombine(r) ==
  /\ sr' = SparseRange_combine(sr, r)
  /\ reference' = reference \cup AddrsOf(r)
  /\ sr_before' = sr
  /\ last_op' = "combine"
  /\ last_range' = r
  /\ pair_kind' = "none"
  /\ pair_start' = <<>>
  /\ UNCHANGED <<mapper_vars, range_vars, vmmap_vars, harness_vars>>

DoRemove(r) ==
  /\ sr' = SparseRange_remove(sr, r)
  /\ reference' = reference \ AddrsOf(r)
  /\ sr_before' = sr
  /\ last_op' = "remove"
  /\ last_range' = r
  /\ IF last_op = "combine" /\ last_range = r
     THEN pair_kind' = "combine_remove" /\ pair_start' = sr_before
     ELSE pair_kind' = "none" /\ pair_start' = <<>>
  /\ UNCHANGED <<mapper_vars, range_vars, vmmap_vars, harness_vars>>

Next ==
  \/ \E r \in RangeArgs : DoCombine(r)
  \/ \E r \in RangeArgs : DoRemove(r)

Spec == Init /\ [][Next]_vars

(***************************************************************************)
(* A Range object driven by calls of its member functions.                 *)
(***************************************************************************)
RangeSpecInit ==
  /\ SparseRangeInit
  /\ MapperInit(<<>>, from_base_length(0, W))
  /\ VmmapIdle(<<>>)
  /\ HarnessOff
  /\ \E this \in Range, other \in Range : RangeInit(this, other)

\* r_ret = r_this.try_combine(r_other)
TryCombine ==
  /\ r_op = "none"
  /\ LET res == Range_try_combine(r_this, r_other)
     IN /\ r_this' = res.r
        /\ r_ret' = res.ok
  /\ r_other' = r_other
  /\ r_before' = [this |-> r_this, other |-> r_other]
  /\ r_op' = "try_combine"
  /\ UNCHANGED <<r_third, r_multiple, r_cap, r_first>>
  /\ UNCHANGED <<sr_vars, mapper_vars, vmmap_vars, harness_vars>>

RangeNext == TryCombine

RangeSpec == RangeSpecInit /\ [][RangeNext]_vars

(***************************************************************************)
(* LoadCapMap::vmmap() over the entries that kinfo_getvmmap() reports.     *)
(***************************************************************************)
KVME_PROT_READ == "READ"
KVME_PROT_READ_CAP == "READ_CAP"

\* One kinfo_vmentry: the mapping [kve_start, kve_end) and its protection.
VmEntries ==
  {e \in [kve_start : WordAddrs, kve_end : WordAddrs,
          kve_protection : SUBSET {KVME_PROT_READ, KVME_PROT_READ_CAP}] :
     e.kve_start < e.kve_end}

\* The memory maps of a process: entries in address order that do not overlap.
VmMaps ==
  {m \in UNION {[1 .. n -> VmEntries] : n \in 0 .. MaxEntries} :
     \A i \in 1 .. Len(m) - 1 : m[i].kve_end <= m[i + 1].kve_start}

\* The loop of vmmap() over vm[0 .. count - 1], from entry i on.
RECURSIVE vmmap_loop(_, _, _)
vmmap_loop(entries, i, map) ==
  IF i > Len(entries) THEN map
  ELSE LET prot == entries[i].kve_protection
       IN vmmap_loop(entries, i + 1,
                     IF KVME_PROT_READ \in prot /\ KVME_PROT_READ_CAP \in prot
                     THEN SparseRange_combine(map, from_base_limit(entries[i].kve_start,
                                                                   entries[i].kve_end))
                     ELSE map)

VmmapInit ==
  /\ SparseRangeInit
  /\ MapperInit(<<>>, from_base_length(0, W))
  /\ RangeInit(EmptyRange, EmptyRange)
  /\ HarnessOff
  /\ \E entries \in VmMaps : VmmapIdle(entries)

\* LoadCapMap::vmmap().  kinfo_getvmmap() returns an array the caller owns,
\* or nullptr and a count of 0 when the query fails; vmmap() returns without
\* a call of free().
Vmmap(query_ok) ==
  /\ vmmap_pc = "idle"
  /\ vm' = IF query_ok THEN "held" ELSE "none"
  /\ vmmap_map' = IF query_ok THEN vmmap_loop(kve, 1, <<>>) ELSE <<>>
  /\ vmmap_pc' = "returned"
  /\ UNCHANGED kve
  /\ UNCHANGED <<sr_vars, mapper_vars, range_vars, harness_vars>>

VmmapNext == \E query_ok \in BOOLEAN : Vmmap(query_ok)

VmmapSpec == VmmapInit /\ [][VmmapNext]_vars

(***************************************************************************)
(* The test harness: main() of tests.cc.  A C string is the sequence of    *)
(* its characters without the terminating NUL.                             *)
(***************************************************************************)
VerboseArg == <<"-", "-", "v", "e", "r", "b", "o", "s", "e">>

\* The arguments a command line is made of.
Args ==
  { VerboseArg,
    <<"-", "v">>,
    <<"-", "v", "v">>,
    <<"-", "v", "x">>,
    <<"-", "-", "v">>,
    <<"-">>,
    <<"s", "c">>,
    <<"x">> }

CommandLines == UNION {[1 .. n -> Args] : n \in 0 .. MaxArgs}

\* Test::list(): the names of the registered tests.
TestList == << <<"r", "a", "n", "g", "e">>, <<"s", "c", "a", "n">> >>

\* The do-while loop of parse_arg over the characters after a single '-'.
RECURSIVE short_options(_, _, _)
short_options(arg, c, verbosity) ==
  IF c > Len(arg) \/ arg[c] # "v"
  THEN [ok |-> FALSE, verbosity |-> verbosity]
  ELSE IF c + 1 > Len(arg)
       THEN [ok |-> TRUE, verbosity |-> verbosity + 1]
       ELSE short_options(arg, c + 1, verbosity + 1)

\* A parse_arg that takes every argument.
Options_parse_arg_lenient(arg, verbosity, needles) ==
  [ok |-> TRUE, verbosity |-> verbosity, needles |-> needles]

\* Options::parse_arg: the returned flag, verbosity_ and filter_needles_.
Options_parse_arg(arg, verbosity, needles) ==
  IF Len(arg) >= 1 /\ arg[1] = "-"
  THEN IF Len(arg) >= 2 /\ arg[2] = "-"
       THEN IF arg = VerboseArg
            THEN [ok |-> TRUE, verbosity |-> verbosity + 1, needles |-> needles]
            ELSE [ok |-> FALSE, verbosity |-> verbosity, needles |-> needles]
       ELSE LET res == short_options(arg, 2, verbosity)
            IN [ok |-> res.ok, verbosity |-> res.verbosity, needles |-> needles]
  ELSE [ok |-> TRUE, verbosity |-> verbosity, needles |-> Append(needles, arg)]

\* strstr(haystack, needle) finds needle.
strstr(haystack, needle) ==
  \E i \in 0 .. Len(haystack) - Len(needle) :
    SubSeq(haystack, i + 1, i + Len(needle)) = needle

\* Options::should_run
Options_should_run(needles, name) ==
  \/ needles = <<>>
  \/ \E k \in DOMAIN needles : strstr(name, needles[k])

HarnessInit ==
  /\ SparseRangeInit
  /\ MapperInit(<<>>, from_base_length(0, W))
  /\ RangeInit(EmptyRange, EmptyRange)
  /\ VmmapIdle(<<>>)
  /\ \E args \in CommandLines : argv = args
  /\ verbosity_ = 0
  /\ filter_needles_ = <<>>
  /\ argi = 1
  /\ test_i = 0
  /\ pass = 0
  /\ fail = 0
  /\ harness_pc = "main"
  /\ exit_status = 0

\* One pass of the argument loop of main: parse argv[i], exit(1) on a bad one.
ParseArg ==
  /\ harness_pc = "main"
  /\ argi <= Len(argv)
  /\ LET res == Options_parse_arg(argv[argi], verbosity_, filter_needles_)
     IN /\ verbosity_' = res.verbosity
        /\ filter_needles_' = res.needles
        /\ IF res.ok
           THEN /\ argi' = argi + 1
                /\ UNCHANGED <<harness_pc, exit_status>>
           ELSE /\ harness_pc' = "exited"
                /\ exit_status' = 1
                /\ UNCHANGED argi
  /\ UNCHANGED <<argv, test_i, pass, fail>>
  /\ UNCHANGED <<sr_vars, mapper_vars, range_vars, vmmap_vars>>

\* One pass of the test loop of main: skip the test, or run it and count it
\* as passed or failed.
RunTest(passed) ==
  /\ harness_pc = "main"
  /\ argi > Len(argv)
  /\ test_i < Len(TestList)
  /\ test_i' = test_i + 1
  /\ IF ~Options_should_run(filter_needles_, TestList[test_i + 1])
     THEN UNCHANGED <<pass, fail>>
     ELSE IF passed
          THEN pass' = pass + 1 /\ UNCHANGED fail
          ELSE fail' = fail + 1 /\ UNCHANGED pass
  /\ UNCHANGED <<argv, verbosity_, filter_needles_, argi, harness_pc, exit_status>>
  /\ UNCHANGED <<sr_vars, mapper_vars, range_vars, vmmap_vars>>

\* The summary line and return 0.
ReturnFromMain ==
  /\ harness_pc = "main"
  /\ argi > Len(argv)
  /\ test_i = Len(TestList)
  /\ harness_pc' = "exited"
  /\ exit_status' = 0
  /\ UNCHANGED <<argv, verbosity_, filter_needles_, argi, test_i, pass, fail>>
  /\ UNCHANGED <<sr_vars, mapper_vars, range_vars, vmmap_vars>>

HarnessNext ==
  \/ ParseArg
  \/ \E passed \in BOOLEAN : RunTest(passed)
  \/ ReturnFromMain

HarnessSpec == HarnessInit /\ [][HarnessNext]_vars

(***************************************************************************)
(* A Range object made by from_cap or shrunk by shrink_to_alignment.       *)
(***************************************************************************)
\* The capabilities with bounds inside the address space.  At base 0 a
\* length of MaxAddr is what cheri_length_get() reports for the whole address
\* space; no capability has it as its real length.
BoundsCaps ==
  {c \in {MkCap(b, n, LoadCapPerms, FALSE) : b \in Addr, n \in 0 .. AddrSpace} :
     /\ c.base + c.length <= AddrSpace
     /\ ~(c.base = 0 /\ c.length = MaxAddr)}

RangeOpsInit ==
  /\ SparseRangeInit
  /\ MapperInit(<<>>, from_base_length(0, W))
  /\ VmmapIdle(<<>>)
  /\ HarnessOff
  /\ \E this \in Range : RangeInit(this, EmptyRange)

\* r_this = Range::from_cap(cap)
FromCap(cap) ==
  /\ r_op = "none"
  /\ r_cap' = cap
  /\ r_this' = from_cap(cap)
  /\ r_before' = [this |-> r_this, other |-> r_other]
  /\ r_op' = "from_cap"
  /\ UNCHANGED <<r_other, r_ret, r_third, r_multiple, r_first>>
  /\ UNCHANGED <<sr_vars, mapper_vars, vmmap_vars, harness_vars>>

\* r_this.shrink_to_alignment(multiple).  A failed assertion ends the process
\* with *this as it was.  The behaviour of cheri_align_up and
\* cheri_align_down is undefined for a multiple that is not a power of two.
ShrinkToAlignment(multiple) ==
  /\ r_op = "none"
  /\ r_multiple' = multiple
  /\ r_before' = [this |-> r_this, other |-> r_other]
  /\ IF ~shrink_assertion_holds(multiple)
     THEN /\ r_op' = "assert"
          /\ r_this' = r_this
     ELSE /\ r_op' = "shrink_to_alignment"
          /\ IF popcount(multiple) = 1 \/ is_empty(r_this)
             THEN r_this' = shrink_to_alignment(r_this, multiple)
             ELSE r_this' \in Range
  /\ UNCHANGED <<r_other, r_ret, r_third, r_cap, r_first>>
  /\ UNCHANGED <<sr_vars, mapper_vars, vmmap_vars, harness_vars>>

\* r_this.shrunk_to_alignment(m).shrunk_to_alignment(m): the second call.
ShrinkAgain ==
  /\ r_op = "shrink_to_alignment"
  /\ popcount(r_multiple) = 1
  /\ r_before' = [this |-> r_this, other |-> r_other]
  /\ r_this' = shrink_to_alignment(r_this, r_multiple)
  /\ r_op' = "shrunk_twice"
  /\ UNCHANGED <<r_other, r_ret, r_third, r_multiple, r_cap, r_first>>
  /\ UNCHANGED <<sr_vars, mapper_vars, vmmap_vars, harness_vars>>

RangeOpsNext ==
  \/ \E cap \in BoundsCaps : FromCap(cap)
  \/ \E multiple \in SizeValues : ShrinkToAlignment(multiple)
  \/ ShrinkAgain

RangeOpsSpec == RangeOpsInit /\ [][RangeOpsNext]_vars

(***************************************************************************)
(* Three Range objects a, b and c (r_this, r_other, r_third) combined in   *)
(* the two orders: a.try_combine(b); a.try_combine(c), and                 *)
(* b.try_combine(c); a.try_combine(b).                                     *)
(***************************************************************************)
NonEmptyRanges == {r \in Range : ~is_empty(r)}

TripleInit ==
  /\ SparseRangeInit
  /\ MapperInit(<<>>, from_base_length(0, W))
  /\ VmmapIdle(<<>>)
  /\ HarnessOff
  /\ \E a \in NonEmptyRanges, b \in NonEmptyRanges, c \in NonEmptyRanges :
       /\ r_this = a
       /\ r_other = b
       /\ r_third = c
       /\ r_before = [this |-> a, other |-> b]
       /\ r_first = [this |-> a, other |-> b, third |-> c]
  /\ r_ret = FALSE
  /\ r_op = "none"
  /\ r_multiple = 1
  /\ r_cap = Untagged

\* r_ret = r_this.try_combine(r_third), after r_this.try_combine(r_other)
TryCombineThenThird ==
  /\ r_op = "try_combine"
  /\ LET res == Range_try_combine(r_this, r_third)
     IN /\ r_this' = res.r
        /\ r_ret' = res.ok
  /\ r_before' = [this |-> r_this, other |-> r_third]
  /\ r_op' = "then_third"
  /\ UNCHANGED <<r_other, r_third, r_multiple, r_cap, r_first>>
  /\ UNCHANGED <<sr_vars, mapper_vars, vmmap_vars, harness_vars>>

\* r_ret = r_other.try_combine(r_third)
OtherTryCombineThird ==
  /\ r_op = "none"
  /\ LET res == Range_try_combine(r_other, r_third)
     IN /\ r_other' = res.r
        /\ r_ret' = res.ok
  /\ r_before' = [this |-> r_other, other |-> r_third]
  /\ r_op' = "other_third"
  /\ UNCHANGED <<r_this, r_third, r_multiple, r_cap, r_first>>
  /\ UNCHANGED <<sr_vars, mapper_vars, vmmap_vars, harness_vars>>

\* r_ret = r_this.try_combine(r_other), after r_other.try_combine(r_third)
TryCombineThenOther ==
  /\ r_op = "other_third"
  /\ LET res == Range_try_combine(r_this, r_other)
     IN /\ r_this' = res.r
        /\ r_ret' = res.ok
  /\ r_before' = [this |-> r_this, other |-> r_other]
  /\ r_op' = "then_other"
  /\ UNCHANGED <<r_other, r_third, r_multiple, r_cap, r_first>>
  /\ UNCHANGED <<sr_vars, mapper_vars, vmmap_vars, harness_vars>>

TripleNext ==
  \/ TryCombine
  \/ TryCombineThenThird
  \/ OtherTryCombineThird
  \/ TryCombineThenOther

TripleSpec == TripleInit /\ [][TripleNext]_vars

(***************************************************************************)
(* Mapper                                                                  *)
(***************************************************************************)
ScanInit ==
  /\ SparseRangeInit
  /\ RangeInit(EmptyRange, EmptyRange)
  /\ VmmapIdle(<<>>)
  /\ HarnessOff
  /\ \E include \in IncludeChoices, self \in SelfChoices : MapperInit(include, self)

\* The scan regions computed at the head of scan(cap, depth).
ScanRanges(cap, lcm, excl, incl) ==
  LET cap_range == from_cap(cap)
      scan_ranges0 == SparseRange_of(cap_range)
      scan_ranges1 == SparseRange_remove_all(scan_ranges0, lcm)
      scan_ranges2 == SparseRange_remove_all(scan_ranges1, excl)
      exclude == SparseRange_remove_all(SparseRange_of(full_64bit), incl)
  IN SparseRange_remove_all(scan_ranges2, exclude)

\* A scan() whose depth test lets depth = max_scan_depth_ through.
ScanDescends_off_by_one(cap, depth) ==
  LoadCapMap_accepts(cap) /\ depth <= max_scan_depth_

\* The condition under which scan(cap, depth) loads through cap.
ScanDescends(cap, depth) ==
  LoadCapMap_accepts(cap) /\ depth < max_scan_depth_

\* Mapper::maps_: the user Maps, in installation order.
maps_ == <<"LoadMap", "PoisonMap">>

\* What map->try_combine(cap) calls: the Map itself and, from within a
\* PoisonMap, the callback.
MapCalls(map, cap) ==
  <<[callee |-> map, cap |-> cap]>>
    \o (IF map = "PoisonMap" /\ PoisonMap_calls_back(cap)
        THEN <<[callee |-> "callback", cap |-> cap]>>
        ELSE <<>>)

\* for (auto& map : maps_) map->try_combine(cap);
RECURSIVE UserMapCalls(_, _)
UserMapCalls(maps, cap) ==
  IF maps = <<>> THEN <<>>
  ELSE MapCalls(Head(maps), cap) \o UserMapCalls(Tail(maps), cap)

\* A scan() that classifies a capability only when it may descend through it.
ScanCalls_depth_checked_first(cap, depth) ==
  (IF depth < max_scan_depth_ THEN UserMapCalls(maps_, cap) ELSE <<>>)
    \o <<[callee |-> "LoadCapMap", cap |-> cap]>>

\* The calls on Maps that scan(cap, depth) makes before its loops, in program
\* order.
ScanCalls(cap, depth) ==
  UserMapCalls(maps_, cap) \o <<[callee |-> "LoadCapMap", cap |-> cap]>>

\* How many of the calls cs went to callee.
CallCount(cs, callee) == Cardinality({i \in DOMAIN cs : cs[i].callee = callee})

\* Entry of scan(cap, depth), up to the head of its loops.  excl is the
\* exclude_self_ in force.
ScanEnter(cap, depth, excl, callers) ==
  /\ max_seen_scan_depth_' = Max(max_seen_scan_depth_, depth)
  /\ calls' = ScanCalls(cap, depth)
  /\ load_map_' = IF CallCount(calls', "LoadMap") > 0
                  THEN LoadMap_try_combine(load_map_, cap) ELSE load_map_
  /\ poison_map_' = IF CallCount(calls', "PoisonMap") > 0
                    THEN PoisonMap_try_combine(poison_map_, cap) ELSE poison_map_
  /\ pois_acc' = Min(pois_acc + CallCount(calls', "callback"), 2)
  /\ load_cap_map_' = LoadCapMap_try_combine(load_cap_map_, cap)
  /\ visits' = visits \cup {[cap |-> cap, depth |-> depth]}
  /\ stack' = Append(callers,
                     [cap |-> cap, depth |-> depth,
                      parts |-> IF ScanDescends(cap, depth)
                                THEN ScanRanges(cap, load_cap_map_, excl, include_)
                                ELSE <<>>,
                      idx |-> 0, next |-> 0, last |-> 0])

Top == stack[Len(stack)]

\* What a load of the word at a may return: the content read before, or, on
\* the first load, any content the memory snapshot may hold there.
WordContents(a) ==
  IF a \in revealed THEN {mem[a]}
  ELSE IF Cardinality({w \in revealed : cheri_tag_get(mem[w])}) < MaxTaggedWords
       THEN Caps
       ELSE {Untagged}

\* The inner loop of the top call is not running or has run out.
InnerLoopOver(f) == f.idx = 0 \/ ~(f.next <= f.last)

\* set_max_scan_depth(n), called before the first scan as the tests do.
SetMaxScanDepth(n) ==
  /\ pc = "idle"
  /\ scan_calls = 0
  /\ max_scan_depth_' = n
  /\ calls' = <<>>
  /\ UNCHANGED <<sr_vars, range_vars, vmmap_vars, harness_vars, prev, include_, self_range, exclude_self_, load_cap_map_, load_map_,
                 poison_map_, pois_acc, max_seen_scan_depth_, roots_, stack, pc, mem,
                 revealed, loads, load_log, visits, scan_calls>>

\* A scan(cap, name) that records the root before it tests the tag.
Scan_records_every_root(cap) ==
  /\ pc = "idle"
  /\ scan_calls < MaxScans
  /\ scan_calls' = scan_calls + 1
  /\ exclude_self_' = SparseRange_combine(<<>>, self_range)
  /\ roots_' = Append(roots_, cap)
  /\ IF cheri_tag_get(cap)
     THEN /\ ScanEnter(cap, 0, exclude_self_', stack)
          /\ pc' = "scanning"
     ELSE /\ calls' = <<>>
          /\ UNCHANGED <<max_seen_scan_depth_, load_map_, poison_map_, pois_acc,
                         load_cap_map_, visits, stack, pc>>
  /\ UNCHANGED <<sr_vars, range_vars, vmmap_vars, harness_vars, prev, include_, self_range, max_scan_depth_, mem, revealed, loads,
                 load_log>>

\* scan(cap, name)
Scan(cap) ==
  /\ pc = "idle"
  /\ scan_calls < MaxScans
  /\ scan_calls' = scan_calls + 1
  /\ exclude_self_' = SparseRange_combine(<<>>, self_range)
  /\ IF cheri_tag_get(cap)
     THEN /\ roots_' = Append(roots_, cap)
          /\ ScanEnter(cap, 0, exclude_self_', stack)
          /\ pc' = "scanning"
     ELSE /\ calls' = <<>>
          /\ UNCHANGED <<roots_, max_seen_scan_depth_, load_map_, poison_map_, pois_acc,
                         load_cap_map_, visits, stack, pc>>
  /\ UNCHANGED <<sr_vars, range_vars, vmmap_vars, harness_vars, prev, include_, self_range, max_scan_depth_, mem, revealed, loads,
                 load_log>>

\* for (auto scan_range : scan_ranges.parts()): take the next part.
NextRange ==
  /\ pc = "scanning"
  /\ InnerLoopOver(Top)
  /\ Top.idx < Len(Top.parts)
  /\ LET scan_range == shrink_to_alignment(Top.parts[Top.idx + 1], W)
     IN stack' = [stack EXCEPT ![Len(stack)] =
                    [@ EXCEPT !.idx = @ + 1,
                              !.next = scan_range.base,
                              !.last = align_down(scan_range.last, W)]]
  /\ calls' = <<>>
  /\ UNCHANGED <<sr_vars, range_vars, vmmap_vars, harness_vars, prev, include_, self_range, exclude_self_, load_cap_map_, load_map_,
                 poison_map_, pois_acc, max_scan_depth_, max_seen_scan_depth_, roots_, pc,
                 mem, revealed, loads, load_log, visits, scan_calls>>

\* One pass of the inner loop: load the word at next through cap and, when it
\* is tagged, call scan(candidate_cap, depth + 1).
LoadWord ==
  /\ pc = "scanning"
  /\ ~InnerLoopOver(Top)
  /\ LET f == Top
         a == f.next
     IN /\ loads' = [loads EXCEPT ![a] = Min(@ + 1, 2)]
        /\ load_log' = load_log \cup {[addr |-> a, cap |-> f.cap, depth |-> f.depth]}
        /\ IF ~LoadInBounds(f.cap, a)
           THEN /\ pc' = "fault"
                /\ calls' = <<>>
                /\ UNCHANGED <<mem, revealed, stack, max_seen_scan_depth_, load_map_,
                               poison_map_, pois_acc, load_cap_map_, visits>>
           ELSE \E candidate_cap \in WordContents(a) :
                  /\ mem' = [mem EXCEPT ![a] = candidate_cap]
                  /\ revealed' = revealed \cup {a}
                  /\ pc' = pc
                  /\ IF cheri_tag_get(candidate_cap)
                     THEN ScanEnter(candidate_cap, f.depth + 1, exclude_self_, stack)
                     ELSE /\ stack' = [stack EXCEPT ![Len(stack)].next = AddrAdd(@, W)]
                          /\ calls' = <<>>
                          /\ UNCHANGED <<max_seen_scan_depth_, load_map_, poison_map_,
                                         pois_acc, load_cap_map_, visits>>
  /\ UNCHANGED <<sr_vars, range_vars, vmmap_vars, harness_vars, prev, include_, self_range, exclude_self_, max_scan_depth_, roots_,
                 scan_calls>>

\* scan(cap, depth) returns; its caller goes on with next += sizeof(void* __capability).
Return ==
  /\ pc = "scanning"
  /\ InnerLoopOver(Top)
  /\ Top.idx >= Len(Top.parts)
  /\ IF Len(stack) = 1
     THEN /\ stack' = <<>>
          /\ pc' = "idle"
     ELSE /\ stack' = [SubSeq(stack, 1, Len(stack) - 1)
                         EXCEPT ![Len(stack) - 1].next = AddrAdd(@, W)]
          /\ pc' = pc
  /\ calls' = <<>>
  /\ UNCHANGED <<sr_vars, range_vars, vmmap_vars, harness_vars, prev, include_, self_range, exclude_self_, load_cap_map_, load_map_,
                 poison_map_, pois_acc, max_scan_depth_, max_seen_scan_depth_, roots_, mem,
                 revealed, loads, load_log, visits, scan_calls>>

\* The Mapper goes out of scope and another one is constructed in its place,
\* with the same include and the same Maps installed, and the callback
\* counter is set to 0.  The memory of the process stays as it is.
NewMapper ==
  /\ pc = "idle"
  /\ prev.mappers < MaxMappers - 1
  /\ Len(roots_) >= 2
  /\ prev' = [roots |-> roots_, depth |-> max_scan_depth_,
               load_cap_map |-> load_cap_map_, load_map |-> load_map_,
               poison_map |-> poison_map_, mappers |-> prev.mappers + 1]
  /\ exclude_self_' = <<>>
  /\ load_cap_map_' = <<>>
  /\ load_map_' = <<>>
  /\ poison_map_' = <<>>
  /\ pois_acc' = 0
  /\ calls' = <<>>
  /\ max_scan_depth_' = UINT64_MAX
  /\ max_seen_scan_depth_' = 0
  /\ roots_' = <<>>
  /\ loads' = [a \in Addr |-> 0]
  /\ load_log' = {}
  /\ visits' = {}
  /\ scan_calls' = 0
  /\ UNCHANGED <<sr_vars, range_vars, vmmap_vars, harness_vars, include_, self_range, stack, pc, mem, revealed>>

ScanStep == NextRange \/ LoadWord \/ Return

ScanNext ==
  \/ \E n \in 0 .. MaxDepthArg : SetMaxScanDepth(n)
  \/ \E cap \in Caps : Scan(cap)
  \/ NextRange
  \/ LoadWord
  \/ Return

ScanSpec == ScanInit /\ [][ScanNext]_vars

\* The roots handed to the two Mappers.
OrderRoots == {MkCap(W, W, LoadCapPerms, FALSE), MkCap(2 * W, W, LoadCapPerms, FALSE),
               UnalignedCap}

OrderNext ==
  \/ \E n \in 0 .. MaxDepthArg : SetMaxScanDepth(n)
  \/ \E cap \in OrderRoots : Scan(cap)
  \/ NextRange
  \/ LoadWord
  \/ Return
  \/ NewMapper

\* Two Mappers, one after the other, over the same memory.
OrderSpec == ScanInit /\ [][OrderNext]_vars

\* The running scan keeps executing.
FairScanSpec == ScanSpec /\ WF_vars(ScanStep)

(***************************************************************************)
(* SparseRange properties                                                  *)
(***************************************************************************)

\* C1: after any sequence of combine(Range) and remove(Range) calls on an
\* empty SparseRange no part is empty, no two parts overlap, no two parts are
\* adjacent (a.last + 1 = b.base), and the parts are strictly ordered by last
\* and by base.
C1_PartsInvariant ==
  /\ \A k \in 1 .. Len(sr) : ~is_empty(sr[k])
  /\ \A j, k \in 1 .. Len(sr) :
       j # k => /\ ~Range_overlaps(sr[j], sr[k])
                /\ sr[j].last + 1 # sr[k].base
  /\ \A j, k \in 1 .. Len(sr) :
       j < k => sr[j].last < sr[k].last /\ sr[j].base < sr[k].base

\* A remove() has just split one part in two.
C1_Witness ==
  /\ last_op = "remove"
  /\ Len(sr) >= 2
  /\ Len(sr) = Len(sr_before) + 1

\* C2: includes(i) is true exactly for the addresses i of the reference set
\* that combine(r) adds r's addresses to and remove(r) deletes them from.
C2_RefinesReference ==
  \A i \in Addr : SparseRange_includes_addr(sr, i) <=> i \in reference

\* A remove() has just uncovered some addresses and left others covered.
C2_Witness ==
  /\ last_op = "remove"
  /\ reference # {}
  /\ Covered(sr_before) \ reference # {}

\* C3 as stated: after combine(r), includes(r) is true, for any Range r.
C3_CombineThenIncludes_AnyRange ==
  last_op = "combine" => SparseRange_includes(sr, last_range)

\* C3 amended: after combine(r) with a non-empty Range r, includes(r) is true.
C3_CombineThenIncludes ==
  (last_op = "combine" /\ ~is_empty(last_range)) => SparseRange_includes(sr, last_range)

\* A combine() of the full range has just absorbed two parts.
C3_Witness ==
  /\ last_op = "combine"
  /\ last_range = full_64bit
  /\ Len(sr_before) >= 2
  /\ SparseRange_includes(sr, last_range)

\* C4: after combine(r); remove(r), overlaps(r) is false and every address
\* outside r that was covered before the two calls is still covered.
C4_CombineRemove ==
  pair_kind = "combine_remove" =>
    /\ ~SparseRange_overlaps(sr, last_range)
    /\ \A i \in Covered(pair_start) \ AddrsOf(last_range) : SparseRange_includes_addr(sr, i)

\* combine(r); remove(r) has acted on a part that reaches below and above r.
C4_Witness ==
  /\ pair_kind = "combine_remove"
  /\ ~is_empty(last_range)
  /\ \E i \in Covered(pair_start) : i < last_range.base
  /\ \E i \in Covered(pair_start) : i > last_range.last
  /\ Covered(pair_start) \cap AddrsOf(last_range) # {}

\* C5: combine is commutative: once combine(a) has run, for every Range b,
\* going on with combine(b) leaves the same parts() as running combine(b)
\* first and combine(a) second from the SparseRange combine(a) started from.
C5_CombineCommutes ==
  last_op = "combine" =>
    \A b \in RangeArgs :
      SparseRange_combine(sr, b)
        = SparseRange_combine(SparseRange_combine(sr_before, b), last_range)

\* combine(a) has acted on two parts it does not touch, and some b overlaps a
\* and bridges all of them into one part.
C5_Witness ==
  /\ last_op = "combine"
  /\ ~is_empty(last_range)
  /\ Len(sr_before) >= 2
  /\ Len(sr) = Len(sr_before) + 1
  /\ \E b \in RangeArgs :
       /\ ~is_empty(b) /\ b # last_range
       /\ Range_overlaps(b, last_range)
       /\ Len(SparseRange_combine(sr, b)) = 1

(***************************************************************************)
(* Mapper properties                                                       *)
(***************************************************************************)
\* The capability word at a, as a Range.
WordAt(a) == from_base_length(a, W)

\* Every address of the word at a is covered by s.
WordInside(s, a) == AddrsOf(WordAt(a)) \subseteq Covered(s)

\* C6: every call of scan(cap, name) returns, whatever the memory holds,
\* also when the scanned bounds reach the last address of the address space.
C6_ScanTerminates == (pc = "scanning") ~> (pc = "idle")

\* C7: no address is loaded more than once in the lifetime of a Mapper.
C7_LoadedAtMostOnce == \A a \in Addr : loads[a] <= 1

\* C8: when a scan with the default max_scan_depth has returned, every
\* aligned capability word that lies inside the bounds of a visited tagged,
\* unsealed Load+LoadCap capability, inside include and outside exclude_self
\* has been loaded, and every tagged capability found in one has been visited.
C8_ClosureComplete ==
  (pc = "idle" /\ max_scan_depth_ = UINT64_MAX) =>
    \A v \in visits : \A a \in WordAddrs :
      ( /\ LoadCapMap_accepts(v.cap)
        /\ AddrsOf(WordAt(a)) \subseteq AddrsOf(from_cap(v.cap))
        /\ WordInside(include_, a)
        /\ AddrsOf(WordAt(a)) \cap Covered(exclude_self_) = {} )
      => /\ loads[a] >= 1
         /\ a \in revealed
         /\ cheri_tag_get(mem[a]) => \E v2 \in visits : v2.cap = mem[a]

\* C9: every load address lies inside include and outside exclude_self; with
\* an empty include nothing is loaded, LoadCapMap holds the roots' bounds only
\* and max_seen_scan_depth is 0; every capability visited below the roots was
\* read from included memory.
C9_LoadsInsideInclude ==
  /\ \A a \in Addr :
       loads[a] >= 1 => a \in Covered(include_) /\ a \notin Covered(exclude_self_)
  /\ include_ = <<>> =>
       /\ load_log = {}
       /\ max_seen_scan_depth_ = 0
       /\ \A v \in visits : v.depth = 0
  /\ \A v \in visits :
       v.depth > 0 => \E a \in revealed : mem[a] = v.cap /\ a \in Covered(include_)

\* C10: with the depth limit n set before scanning, no capability is visited
\* at a depth above n, max_seen_scan_depth never exceeds n, no word is loaded
\* through a capability visited at depth n (none at all when n = 0), and every
\* visited capability has been offered to the maps and to LoadCapMap.
C10_DepthLimit ==
  /\ \A v \in visits : v.depth <= max_scan_depth_
  /\ max_seen_scan_depth_ <= max_scan_depth_
  /\ \A l \in load_log : l.depth < max_scan_depth_
  /\ max_scan_depth_ = 0 => load_log = {}
  /\ \A v \in visits :
       /\ LoadCapMap_accepts(v.cap) => SparseRange_includes(load_cap_map_, from_cap(v.cap))
       /\ LoadMap_accepts(v.cap) => SparseRange_includes(load_map_, from_cap(v.cap))

\* A scan limited to depth 1 has returned after visiting, at depth 1, a
\* capability to an included word that was therefore not loaded.
C10_Witness ==
  /\ pc = "idle"
  /\ max_scan_depth_ = 1
  /\ max_seen_scan_depth_ = 1
  /\ \E v \in visits : \E a \in WordAddrs :
       /\ v.depth = 1
       /\ LoadCapMap_accepts(v.cap)
       /\ AddrsOf(WordAt(a)) \subseteq AddrsOf(from_cap(v.cap))
       /\ WordInside(include_, a)
       /\ AddrsOf(WordAt(a)) \cap Covered(exclude_self_) = {}
       /\ loads[a] = 0

\* A call of try_combine on a user Map.
IsUserMapCall(c) == \E i \in DOMAIN maps_ : c.callee = maps_[i]

\* C11: on every visit of a tagged capability, try_combine of every user Map
\* is called exactly once with it, in installation order, before LoadCapMap
\* is updated and before any word is loaded through it, whatever its bounds
\* and its depth.
C11_UserMapsCalledFirst ==
  /\ (pc = "scanning" /\ Top.idx = 0) => calls # <<>>
  /\ calls # <<>> =>
       /\ pc = "scanning"
       /\ Top.idx = 0
       /\ [cap |-> Top.cap, depth |-> Top.depth] \in visits
       /\ \A i \in DOMAIN calls : calls[i].cap = Top.cap
       /\ LET user == SelectSeq(calls, IsUserMapCall)
          IN /\ [i \in DOMAIN user |-> user[i].callee] = maps_
             /\ \A i \in DOMAIN calls :
                  IsUserMapCall(calls[i]) => i < Len(calls)
       /\ calls[Len(calls)].callee = "LoadCapMap"
       /\ CallCount(calls, "LoadCapMap") = 1
       /\ LoadMap_accepts(Top.cap) => SparseRange_includes(load_map_, from_cap(Top.cap))
       /\ PoisonMap_accepts(Top.cap) => SparseRange_includes(poison_map_, from_cap(Top.cap))

\* A capability read from memory has just been visited at depth
\* max_scan_depth_, its bounds wholly outside include, and the user Maps
\* have been called with it.
C11_Witness ==
  /\ calls # <<>>
  /\ pc = "scanning"
  /\ Top.depth = max_scan_depth_
  /\ Top.depth >= 1
  /\ LoadMap_accepts(Top.cap)
  /\ ~SparseRange_overlaps(include_, from_cap(Top.cap))
  /\ CallCount(calls, "LoadMap") = 1
  /\ CallCount(calls, "PoisonMap") = 1

\* C12: with a LoadMap installed before the first scan, the LoadMap includes
\* the LoadCapMap at every moment: every address covered by LoadCapMap is
\* covered by LoadMap.
C12_LoadMapIncludesLoadCapMap ==
  /\ SparseRange_includes_all(load_map_, load_cap_map_)
  /\ Covered(load_cap_map_) \subseteq Covered(load_map_)

\* Scans have returned that put a capability into LoadCapMap and another,
\* without LoadCap permission, into LoadMap only.
C12_Witness ==
  /\ pc = "idle"
  /\ load_cap_map_ # <<>>
  /\ Covered(load_map_) # Covered(load_cap_map_)
  /\ \E v \in visits : LoadMap_accepts(v.cap) /\ ~LoadCapMap_accepts(v.cap)

\* C13: LoadCapMap::try_combine(cap) returns true exactly when cap is tagged,
\* not sealed and has both Load and LoadCap; otherwise it returns false and
\* leaves ranges_ unchanged, so that LoadCapMap covers the bounds of the
\* accepted capabilities only; and words are loaded only through
\* capabilities for which it returned true.
C13_LoadCapMapAccepts ==
  /\ \A c \in Caps :
       /\ LoadCapMap_accepts(c)
            <=> (c.tag /\ ~c.sealed /\ "Load" \in c.perms /\ "LoadCap" \in c.perms)
       /\ ~LoadCapMap_accepts(c) => LoadCapMap_try_combine(load_cap_map_, c) = load_cap_map_
  /\ Covered(load_cap_map_)
       = UNION {AddrsOf(from_cap(v.cap)) :
                  v \in {x \in visits : x.cap.tag /\ ~x.cap.sealed
                                          /\ {"Load", "LoadCap"} \subseteq x.cap.perms}}
  /\ \A l \in load_log :
       l.cap.tag /\ ~l.cap.sealed /\ {"Load", "LoadCap"} \subseteq l.cap.perms
  /\ \A i \in DOMAIN stack :
       stack[i].parts # <<>> =>
         (stack[i].cap.tag /\ ~stack[i].cap.sealed
            /\ {"Load", "LoadCap"} \subseteq stack[i].cap.perms)

\* A sealed capability and one without LoadCap have been visited, and words
\* have been loaded through an accepted one.
C13_Witness ==
  /\ pc = "idle"
  /\ \E v \in visits : v.cap.tag /\ v.cap.sealed
  /\ \E v \in visits : v.cap.tag /\ ~v.cap.sealed /\ v.cap.perms = {"Load"}
  /\ load_log # {}
  /\ load_cap_map_ # <<>>

\* C14: LoadCapMap holds the bounds of the accepted capabilities shrunk to
\* capability alignment: every address it covers belongs to a whole aligned
\* capability word that lies inside the bounds of an accepted capability.
C14_LoadCapMapAligned ==
  \A a \in Covered(load_cap_map_) :
    \E v \in visits :
      /\ LoadCapMap_accepts(v.cap)
      /\ AddrsOf(WordAt(align_down(a, W))) \subseteq AddrsOf(from_cap(v.cap))

\* s and t hold the same elements, each as often.
IsPermutation(s, t) ==
  /\ Len(s) = Len(t)
  /\ \A x \in {s[i] : i \in DOMAIN s} :
       Cardinality({i \in DOMAIN s : s[i] = x}) = Cardinality({i \in DOMAIN t : t[i] = x})

\* C15: two Mappers with the same include and max_scan_depth that have
\* scanned the same roots over the same memory, in whatever order, end with
\* the same ranges() in LoadCapMap and in every user Map.
C15_OrderIndependent ==
  ( /\ prev.mappers > 0
    /\ pc = "idle"
    /\ max_scan_depth_ = prev.depth
    /\ IsPermutation(roots_, prev.roots) )
  => /\ load_cap_map_ = prev.load_cap_map
     /\ load_map_ = prev.load_map
     /\ poison_map_ = prev.poison_map

\* C16: scan(cap, name) with an untagged cap refreshes exclude_self_ and
\* nothing else: roots_, the ranges of LoadCapMap and of the user Maps and
\* max_seen_scan_depth_ stay, no Map is called, nothing is loaded.  With a
\* tagged cap the root is appended once, behind the earlier roots.
C16_UntaggedRootIgnored ==
  [][\A cap \in Caps :
       Scan(cap) =>
         /\ exclude_self_' = SparseRange_of(self_range)
         /\ IF ~cap.tag
            THEN /\ roots_' = roots_
                 /\ load_cap_map_' = load_cap_map_
                 /\ load_map_' = load_map_
                 /\ poison_map_' = poison_map_
                 /\ pois_acc' = pois_acc
                 /\ max_seen_scan_depth_' = max_seen_scan_depth_
                 /\ calls' = <<>>
                 /\ visits' = visits
                 /\ loads' = loads
                 /\ load_log' = load_log
                 /\ pc' = "idle"
            ELSE /\ Len(roots_') = Len(roots_) + 1
                 /\ SubSeq(roots_', 1, Len(roots_)) = roots_
                 /\ roots_'[Len(roots_')] = cap]_vars

\* A tagged and an untagged capability have been passed to scan(cap, name):
\* two calls, one root.
C16_Witness ==
  /\ pc = "idle"
  /\ scan_calls = 2
  /\ Len(roots_) = 1
  /\ exclude_self_ = SparseRange_of(self_range)

\* C17: no step of a Mapper takes an address out of the ranges of LoadCapMap
\* or of a user Map, and max_seen_scan_depth never goes down.
C17_MapsGrow ==
  [][/\ Covered(load_cap_map_) \subseteq Covered(load_cap_map_')
     /\ Covered(load_map_) \subseteq Covered(load_map_')
     /\ Covered(poison_map_) \subseteq Covered(poison_map_')
     /\ max_seen_scan_depth_' >= max_seen_scan_depth_]_vars

\* A second scan has added a part to a LoadCapMap that a first scan, which
\* went below its root, had filled.
C17_Witness ==
  /\ pc = "idle"
  /\ Len(roots_) = 2
  /\ Len(load_cap_map_) >= 2
  /\ Len(poison_map_) >= 2
  /\ max_seen_scan_depth_ >= 1
  /\ SparseRange_includes(load_cap_map_, from_cap(roots_[1]))
  /\ ~Range_overlaps(from_cap(roots_[1]), from_cap(roots_[2]))

\* The addresses of the objects on the cycle that capability c points into,
\* as far as memory has been read: <<a1, ..., an>> when c is a capability to
\* the capability-sized object at a1, which holds one to the object at a2,
\* ..., and the object at an holds one to the object at a1; <<>> otherwise.
RECURSIVE CycleFrom(_, _)
CycleFrom(c, seen) ==
  IF c \notin WordCaps THEN <<>>
  ELSE IF \E i \in DOMAIN seen : seen[i] = c.base
       THEN (IF seen[1] = c.base THEN seen ELSE <<>>)
       ELSE IF c.base \notin revealed THEN <<>>
            ELSE CycleFrom(mem[c.base], Append(seen, c.base))

\* The first scan of a Mapper with the default depth is the scan of a root
\* that points into a cycle of included objects.
CycleScan ==
  /\ scan_calls = 1
  /\ Len(roots_) = 1
  /\ max_scan_depth_ = UINT64_MAX
  /\ LET cycle == CycleFrom(roots_[1], <<>>)
     IN /\ cycle # <<>>
        /\ \A i \in DOMAIN cycle :
             /\ WordInside(include_, cycle[i])
             /\ AddrsOf(WordAt(cycle[i])) \cap Covered(exclude_self_) = {}

\* LoadCapMap covers the objects of the cycle and nothing else, and the
\* deepest visit was at depth n.
CycleResult ==
  LET cycle == CycleFrom(roots_[1], <<>>)
  IN /\ Covered(load_cap_map_) = UNION {AddrsOf(WordAt(cycle[i])) : i \in DOMAIN cycle}
     /\ Cardinality(Covered(load_cap_map_)) = Len(cycle) * W
     /\ max_seen_scan_depth_ = Len(cycle)

\* C18: the scan of a root that points into a simple cycle of n included
\* capability-sized objects ends, with LoadCapMap covering exactly the n
\* objects and max_seen_scan_depth = n.
C18_CycleScanEnds ==
  (pc = "scanning" /\ CycleScan) ~> (pc = "idle" /\ CycleScan /\ CycleResult)

\* The capabilities that can be reached from those of S by loading, through
\* capabilities that LoadCapMap accepts, the capability words of included
\* memory outside the Mapper that have been read.
RECURSIVE ReachFrom(_)
ReachFrom(S) ==
  LET words == {w \in revealed :
                  /\ cheri_tag_get(mem[w])
                  /\ WordInside(include_, w)
                  /\ AddrsOf(WordAt(w)) \cap Covered(exclude_self_) = {}
                  /\ \E c \in S : /\ LoadCapMap_accepts(c)
                                   /\ AddrsOf(WordAt(w)) \subseteq AddrsOf(from_cap(c))}
      next == S \cup {mem[w] : w \in words}
  IN IF next = S THEN S ELSE ReachFrom(next)

\* The capabilities reachable from the roots scanned so far.
Reachable == ReachFrom({roots_[i] : i \in DOMAIN roots_})

\* cap is tagged, has the permissions of the PoisonMap, and its bounds
\* overlap the poison region.
Poisoned(cap) ==
  /\ cap.tag
  /\ PoisonMap_perms_ \subseteq cap.perms
  /\ \E a \in AddrsOf(from_cap(cap)) : a \in Covered(PoisonMap_poison_)

\* C19: the poison callback runs exactly once in each visit of a capability
\* that the PoisonMap accepts and whose bounds overlap the poison region,
\* and never otherwise; so it never runs when no capability reachable from
\* the roots overlaps the poison region, and it has run when a scan from a
\* root that reaches such a capability has returned.
C19_PoisonCallback ==
  /\ calls # <<>> =>
       /\ CallCount(calls, "callback") = (IF Poisoned(Top.cap) THEN 1 ELSE 0)
       /\ \A i \in DOMAIN calls :
            calls[i].callee = "callback" => (i > 1 /\ calls[i - 1].callee = "PoisonMap")
  /\ pois_acc >= 1 <=> \E v \in visits : Poisoned(v.cap)
  /\ pois_acc >= 1 => \E c \in Reachable : Poisoned(c)
  /\ (pc = "idle" /\ max_scan_depth_ = UINT64_MAX /\ \E c \in Reachable : Poisoned(c))
       => pois_acc >= 1

\* C20: on non-empty ranges try_combine(other) returns true exactly when the
\* two ranges share an address or one starts right behind the last address
\* of the other, the first address never counting as behind the last one;
\* then *this is [min of the bases, max of the lasts], otherwise it is
\* unchanged.  The argument stays as it was.
C20_TryCombine ==
  (r_op = "try_combine" /\ ~is_empty(r_before.this) /\ ~is_empty(r_before.other)) =>
    LET a == r_before.this
        b == r_before.other
        overlap == AddrsOf(a) \cap AddrsOf(b) # {}
        adjacent == \/ (a.last < MaxAddr /\ a.last + 1 = b.base)
                    \/ (b.last < MaxAddr /\ b.last + 1 = a.base)
    IN /\ r_ret = (overlap \/ adjacent)
       /\ r_ret => r_this = [base |-> IF a.base < b.base THEN a.base ELSE b.base,
                             last |-> IF a.last > b.last THEN a.last ELSE b.last]
       /\ ~r_ret => r_this = a
       /\ r_other = b

\* try_combine has merged a range with the one right behind it.
C20_Witness ==
  /\ r_op = "try_combine"
  /\ ~is_empty(r_before.this) /\ ~is_empty(r_before.other)
  /\ r_before.this.last + 1 = r_before.other.base
  /\ r_ret
  /\ r_this = [base |-> r_before.this.base, last |-> r_before.other.last]
  /\ r_this # r_before.this

\* The three ranges were constructed non-empty, a right before b and b right
\* before c.
Chain ==
  /\ ~is_empty(r_first.this) /\ ~is_empty(r_first.other) /\ ~is_empty(r_first.third)
  /\ Range_preceeds(r_first.this, r_first.other)
  /\ Range_preceeds(r_first.other, r_first.third)

\* C21: for non-empty a, b, c with a.preceeds(b) and b.preceeds(c), combining
\* b into a and then c into the result, and combining c into b and then that
\* result into a, both succeed at every call and both leave a = [a.base, c.last].
C21_TryCombineAssociative ==
  Chain =>
    LET a == r_first.this
        b == r_first.other
        c == r_first.third
    IN /\ r_op = "try_combine" => (r_ret /\ r_this = [base |-> a.base, last |-> b.last])
       /\ r_op = "then_third" => (r_ret /\ r_this = [base |-> a.base, last |-> c.last])
       /\ r_op = "other_third" => (r_ret /\ r_other = [base |-> b.base, last |-> c.last])
       /\ r_op = "then_other" => (r_ret /\ r_this = [base |-> a.base, last |-> c.last])

\* c was combined into b and the result into a, a starting at the first
\* address and c ending at the last one.
C21_Witness ==
  /\ Chain
  /\ r_op = "then_other"
  /\ r_first.this.base = 0
  /\ r_first.third.last = MaxAddr
  /\ r_this = full_64bit

\* C22: shrunk_to_alignment is idempotent: for every Range and every power of
\* two m, a second shrunk_to_alignment(m) returns the Range the first one
\* returned.
C22_ShrinkIdempotent ==
  (r_op = "shrunk_twice" /\ popcount(r_multiple) = 1) => r_this = r_before.this

\* A one-byte range at the first address was shrunk twice to capability
\* alignment.
C22_Witness ==
  /\ r_op = "shrunk_twice"
  /\ r_multiple = W
  /\ r_first.this = from_base_last(0, 0)
  /\ r_this = r_before.this

\* C23: the empty Range is a left and right identity for try_combine: after
\* a.try_combine(e) with e empty a has the value it had, and after
\* e.try_combine(a) with e empty e has the value of a (two empty ranges
\* counting as the same value).
C23_EmptyIsIdentity ==
  r_op = "try_combine" =>
    LET same(x, y) == x = y \/ (is_empty(x) /\ is_empty(y))
    IN /\ is_empty(r_before.other) => same(r_this, r_before.this)
       /\ is_empty(r_before.this) => same(r_this, r_before.other)

\* C24: for a non-empty Range r and a power of two m, shrink_to_alignment(m)
\* leaves [base rounded up, last + 1 rounded down, minus one], which is
\* either empty or a non-empty range included in r; an empty r is left
\* unchanged.
C24_ShrinkWithinRange ==
  (r_op = "shrink_to_alignment" /\ popcount(r_multiple) = 1) =>
    LET r == r_before.this
    IN IF is_empty(r)
       THEN r_this = r
       ELSE /\ r_this = from_base_last(align_up(r.base, r_multiple),
                                       AddrSub(align_down(AddrAdd(r.last, 1), r_multiple), 1))
            /\ is_empty(r_this) \/ Range_includes(r, r_this)

\* C25: shrink_to_alignment(multiple) fails its assertion exactly when
\* multiple is not a power of two, and then the range is as it was.
C25_AssertsNonPowerOfTwo ==
  /\ r_op = "assert" => (popcount(r_multiple) # 1 /\ r_this = r_before.this)
  /\ r_op = "shrink_to_alignment" => popcount(r_multiple) = 1

\* C26: when vmmap() has returned, the array it got from the mapping query is
\* no longer held, and the SparseRange it returned covers exactly the
\* addresses of [kve_start, kve_end) of the entries whose protection has both
\* read and read-capability.
C26_VmmapReleases ==
  vmmap_pc = "returned" =>
    /\ vm # "held"
    /\ Covered(vmmap_map) =
         UNION {AddrsOf(from_base_last(kve[i].kve_start, kve[i].kve_end - 1)) :
                  i \in {j \in DOMAIN kve :
                           {KVME_PROT_READ, KVME_PROT_READ_CAP} \subseteq kve[j].kve_protection}}

\* C27 as stated: the test harness exits with status 0 for every command
\* line, an unrecognised option included, whether tests pass or fail.
C27_ExitZeroAlways ==
  harness_pc = "exited" => exit_status = 0

\* C27 amended: the test harness exits with status 0 exactly when every
\* argument is a filter, --verbose or a '-' followed by one or more 'v',
\* whether tests pass or fail; otherwise it exits with status 1 at the first
\* other argument, before any test has run.
C27_ExitStatus ==
  harness_pc = "exited" =>
    LET accepted(arg) ==
          \/ arg = <<>>
          \/ arg[1] # "-"
          \/ arg = VerboseArg
          \/ (Len(arg) >= 2 /\ \A k \in 2 .. Len(arg) : arg[k] = "v")
    IN IF \A i \in DOMAIN argv : accepted(argv[i])
       THEN /\ exit_status = 0
            /\ test_i = Len(TestList)
       ELSE /\ exit_status = 1
            /\ ~accepted(argv[argi])
            /\ \A i \in 1 .. argi - 1 : accepted(argv[i])
            /\ test_i = 0 /\ pass = 0 /\ fail = 0

\* A run with -v and a filter in which the one test that ran failed: the
\* exit status is 0.
C27_Witness ==
  /\ harness_pc = "exited"
  /\ exit_status = 0
  /\ argv = << <<"-", "v">>, <<"s", "c">> >>
  /\ verbosity_ = 1
  /\ pass = 0
  /\ fail = 1

\* C28: in every state of a SparseRange, overlaps(r) of a non-empty Range r
\* is true exactly when some address of r is covered by a part, includes(r)
\* exactly when every address of r is covered, and then by one part; both
\* are false for an empty r; includes(SparseRange s) is true exactly when
\* every part of s is included.
C28_QueriesArePointSets ==
  /\ \A r \in Range :
       IF is_empty(r)
       THEN ~SparseRange_overlaps(sr, r) /\ ~SparseRange_includes(sr, r)
       ELSE /\ SparseRange_overlaps(sr, r) <=> (AddrsOf(r) \cap Covered(sr) # {})
            /\ SparseRange_includes(sr, r) <=> (AddrsOf(r) \subseteq Covered(sr))
            /\ SparseRange_includes(sr, r) =>
                 \E k \in DOMAIN sr : Range_includes(sr[k], r)
  /\ SparseRange_includes_all(sr, sr_before) <=>
       \A k \in DOMAIN sr_before : AddrsOf(sr_before[k]) \subseteq Covered(sr)

\* Two parts, and a range from the last address of the first part to the
\* address before the second part: only the part before the lower bound
\* overlaps it.  The SparseRange includes what it was before the last call.
C28_Witness ==
  /\ Len(sr) = 2
  /\ LET r == from_base_last(sr[1].last, sr[2].base - 1)
     IN /\ SparseRange_overlaps(sr, r)
        /\ lower_bound(sr, r) = 2
        /\ ~Range_overlaps(sr[2], r)
        /\ ~SparseRange_includes(sr, r)
  /\ sr_before # <<>>
  /\ SparseRange_includes_all(sr, sr_before)

\* C29: every load of scan is at a W-aligned address whose whole word lies
\* inside the bounds of the capability it is made through, and while a call
\* of scan(cap, depth) walks one region the address it loads next is higher
\* than the one before.
C29_LoadsAlignedInBounds ==
  [][/\ \A l \in load_log' \ load_log :
          /\ l.addr % W = 0
          /\ cheri_base_get(l.cap) <= l.addr
          /\ l.addr + W <= cheri_base_get(l.cap) + l.cap.length
      /\ \A d \in DOMAIN stack :
          (/\ d \in DOMAIN stack'
           /\ stack'[d].idx = stack[d].idx
           /\ stack[d].idx > 0
           /\ stack'[d].next # stack[d].next
           /\ stack'[d].next <= stack'[d].last) => stack'[d].next > stack[d].next]_vars

\* C30: from_base_length(b, 0) and from_cap of a capability of length 0 are
\* empty for every base b, and from_cap returns the full range only for the
\* capability with base 0 and the saturated length.
C30_ZeroLengthIsEmpty ==
  r_op = "from_cap" =>
    /\ r_cap.length = 0 =>
         (is_empty(from_base_length(r_cap.base, 0)) /\ is_empty(r_this))
    /\ r_this = full_64bit =>
         (cheri_base_get(r_cap) = 0 /\ cheri_length_get(r_cap) = MaxAddr)

====
